---- MODULE Spec2Model ----
(***************************************************************************)
(* Story Graph: the forensic classification pipeline of the App component  *)
(* (batch phases, the 10-second operation poller, the registry) over the   *)
(* IndexedDB registry 'StoryGraphRegistry'.                                *)
(*                                                                         *)
(* The registry is one persistent store shared by every revision of the    *)
(* App.  The model takes the current App.tsx (Tech Specs, Categorization,  *)
(* Relational Sync, the poller, Reset, Index Folder) together with the     *)
(* handlers that submit long-running jobs into the same registry:          *)
(* handleBRollMapping and handleTranscribeMulticam, and MediaTable's       *)
(* onAnalyze -> handleAnalyze, which calls analyzeFile with no phase.      *)
(*                                                                         *)
(* Spec        the App: indexing, the batch phases, alignment, the poller. *)
(* ExportSpec  handleRelationalSync and handleExportXML (generateXML) over *)
(*             the registries of a categorized three-file shoot.           *)
(* MirrorSpec  analyzeFile with syncToGCS against the GCS bucket.          *)
(* WaveSpec    calculateOffset on synthetic master / slave recordings.     *)
(* NestedSpec  handleExportXML over registries indexed from nested folders, *)
(*             where file names repeat.                                    *)
(* LiveSpec    the App with remote jobs running and one user command to    *)
(*             come, under fairness of the awaited calls, the poll timer   *)
(*             and the remote jobs.                                        *)
(***************************************************************************)
EXTENDS Integers, Sequences, FiniteSets, TLC

\* ---------------------------------------------------------------- bounds
\* Number of long-running jobs the remote annotation service accepts.
MaxOps == 2

\* Number of uploads of one object the bucket stores.
MaxUploads == 2

\* Number of user commands (Index Folder, Reset, a phase button, a row's
\* Analyze button) in one run.
MaxClicks == 4

\* ------------------------------------------------------- the Drive folder
\* Drive file ids, in IndexedDB key order.
Order == <<"a1", "v1", "v2">>

\* The files fetchFilesRecursively discovers in the folder the user picks.
Folder == <<"a1", "v1">>

Assets == {Order[i] : i \in 1..Len(Order)}

\* isAudio ? 'audio' : 'video'
CategoryOf(a) == IF a = "a1" THEN "audio" ELSE "video"

\* driveFile.name, one character per element.
FilenameOf(a) ==
  CASE a = "a1" -> <<"m", "_", "1", ".", "w", "a", "v">>
    [] a = "v1" -> <<"c", "-", "1", ".", "m", "p", "4">>
    [] a = "v2" -> <<"c", " ", "2", ".", "m", "p", "4">>

\* driveFile.videoMediaMetadata?.durationMillis || 0
DurationOf(a) == IF a = "a1" THEN 0 ELSE 4000

\* What the metadata extractor (FFprobe) reports for the asset.
ProbeOf(a) ==
  IF a = "v1"
  THEN [frame_rate_fraction |-> "30000/1001", total_frames |-> "300", width |-> 3840, height |-> 2160]
  ELSE [frame_rate_fraction |-> "25/1", total_frames |-> "100", width |-> 0, height |-> 0]

\* data.name of the n-th submitted videos:annotate job.
OpNames == <<"projects/op1", "projects/op2", "projects/op3", "projects/op4">>

\* ------------------------------------------------------------ MediaFile
NoOp == "undefined"
NoStage == "undefined"
NoTech == <<>>
NoContent == "undefined"

\* The three terminal markers of operation_id.
TerminalHandles == {"light_complete", "completed", "error"}

\* mediaFile built by handleFolderSelected for a discovered Drive file.
NewMediaFile(a) ==
  [drive_id |-> a,
   filename |-> FilenameOf(a),
   duration |-> DurationOf(a),
   media_category |-> CategoryOf(a),
   clip_type |-> "unknown",
   operation_id |-> NoOp,
   analysis_content |-> NoContent,
   last_forensic_stage |-> NoStage,
   tech_metadata |-> NoTech,
   sync_offset_frames |-> 0]

\* Object spread { ...file, ...data }.
Spread(file, data) ==
  [f \in DOMAIN file \cup DOMAIN data |->
     IF f \in DOMAIN data THEN data[f] ELSE file[f]]

VARIABLES
  accessToken,    \* user?.accessToken is set
  db,             \* object store 'media', keyed by drive_id
  registryFiles,  \* React state: the last getAllMedia() result
  activePhase,    \* React state
  analyzingId,    \* React state
  job,            \* the running phase handler: its closure and loop position
  polls,          \* handleCheckStatus calls awaiting the remote poll reply
  nextOp,         \* jobs submitted to the annotation service so far
  clicks,         \* user commands given so far
  xml,            \* the document handed to downloadXML
  bucket,         \* objects of the GCS bucket, by object name
  requests,       \* remote requests issued by the analyzeFile call under way
  mirrored,       \* files for which a syncToGCS call has resolved
  uploads,        \* upload requests the bucket has stored, per object name
  masterBuffer,   \* decoded channel 0 of the master recording
  slaveBuffer,    \* decoded channel 0 of the slave recording
  bestOffset      \* what calculateOffset returned

\* State of the bucket mirror (useForensicSurveyor).
mirrorVars == <<bucket, requests, mirrored, uploads>>

\* State of the waveform matcher (useWaveformSync).
waveVars == <<masterBuffer, slaveBuffer, bestOffset>>

vars == <<accessToken, db, registryFiles, activePhase, analyzingId, job, polls, nextOp, clicks,
          xml, mirrorVars, waveVars>>

Idle == [phase |-> "none", targets |-> <<>>, i |-> 0, log |-> <<>>]

\* ------------------------------------------------------------- registry
\* A put that also rewrites every other record to its discovery state.
upsertMedia_rewritesOthers(store, file) ==
  [a \in DOMAIN store \cup {file.drive_id} |->
     IF a = file.drive_id THEN file ELSE NewMediaFile(a)]

\* store.put(file): the stored record for the key is replaced by `file`.
upsertMedia(store, file) ==
  [a \in DOMAIN store \cup {file.drive_id} |->
     IF a = file.drive_id THEN file ELSE store[a]]

\* store.getAll(): every record, in key order.
getAllMedia(store) ==
  LET present(i) == Order[i] \in DOMAIN store
      RECURSIVE collect(_)
      collect(i) == IF i > Len(Order) THEN <<>>
                    ELSE IF present(i) THEN <<store[Order[i]]>> \o collect(i + 1)
                    ELSE collect(i + 1)
  IN collect(1)

\* A clear that deletes the first record only.
clearRegistry_deletesFirst(store) ==
  LET all == getAllMedia(store)
  IN [a \in DOMAIN store \ {all[k].drive_id : k \in {1} \cap DOMAIN all} |-> store[a]]

\* store.clear()
clearRegistry(store) == [a \in {} |-> NewMediaFile(a)]

\* ------------------------------------------------------ forensic surveyor
MirrorError == "Error: Mirroring to GCS failed. Check Bucket CORS."
TechError == "Error: Metadata Service Failed"
DiscoveryError == "Error: Gemini Discovery Failed"
HeavyError == "Error: Cloud Analysis Error"

\* What the remote side answers to one analyzeFile call: the mirror upload is
\* refused, the analysis call is refused, or both succeed.
Replies == {"mirror_fail", "fail", "ok"}

\* runTechPass: its own try/catch turns a failed probe into an error record.
runTechPass(file, reply) ==
  IF reply = "ok"
  THEN [tech_metadata |-> ProbeOf(file.drive_id),
        analysis_content |-> "SMPTE TC",
        operation_id |-> "completed",
        last_forensic_stage |-> "tech"]
  ELSE [analysis_content |-> TechError, operation_id |-> "error"]

\* runGeminiDiscovery: throws when the response is not ok.
runGeminiDiscovery(file, reply, isInterview) ==
  IF reply = "ok"
  THEN [threw |-> FALSE,
        data |-> [clip_type |-> IF isInterview THEN "interview" ELSE "b-roll",
                  analysis_content |-> IF isInterview THEN "Discovery: Interview"
                                       ELSE "Discovery: B-Roll",
                  operation_id |-> "light_complete",
                  last_forensic_stage |-> "light"]]
  ELSE [threw |-> TRUE, message |-> DiscoveryError]

\* runHeavyPass: submits the job and returns only its handle (data.name).
runHeavyPass(file, mode, reply, name) ==
  IF reply = "ok"
  THEN [threw |-> FALSE,
        data |-> [operation_id |-> name,
                  analysis_content |-> IF mode = "transcribe" THEN "Transcribing..."
                                       ELSE "Analyzing...",
                  last_forensic_stage |-> "heavy"]]
  ELSE [threw |-> TRUE, message |-> HeavyError]

\* The remote call analyzeFile routes (file, phase) to.
Route(file, phase) ==
  CASE phase = "tech_specs" -> "tech"
    [] phase \in {"audio_discovery", "shot_type"} -> "discovery"
    [] phase = "b_roll_desc" -> "b_roll_desc"
    [] phase = "transcribe" -> "transcribe"
    [] OTHER -> "discovery"

\* analyzeFile without its catch: a failed mirror or remote call rejects.
analyzeFile_uncaught(token, file, phase, reply, isInterview, name) ==
  IF ~token THEN [threw |-> TRUE]
  ELSE IF reply = "mirror_fail" THEN [threw |-> TRUE]
  ELSE LET route == Route(file, phase)
           r == CASE route = "tech" -> [threw |-> FALSE, data |-> runTechPass(file, reply)]
                  [] route = "discovery" -> runGeminiDiscovery(file, reply, isInterview)
                  [] OTHER -> runHeavyPass(file, route, reply, name)
       IN IF r.threw THEN [threw |-> TRUE] ELSE r

\* analyzeFile(file, phase): [threw |-> TRUE] when it rejects, else the
\* Partial<MediaFile> it resolves to.  phase = "undefined" is the call with
\* no phase argument.
analyzeFile(token, file, phase, reply, isInterview, name) ==
  IF ~token THEN [threw |-> TRUE]
  ELSE IF reply = "mirror_fail"
  THEN [threw |-> FALSE,
        data |-> [analysis_content |-> MirrorError, operation_id |-> "error"]]
  ELSE LET route == Route(file, phase)
           r == CASE route = "tech" -> [threw |-> FALSE, data |-> runTechPass(file, reply)]
                  [] route = "discovery" -> runGeminiDiscovery(file, reply, isInterview)
                  [] OTHER -> runHeavyPass(file, route, reply, name)
       IN IF r.threw
          THEN [threw |-> FALSE,
                data |-> [analysis_content |-> r.message, operation_id |-> "error"]]
          ELSE r

\* What the annotation service answers to one poll of an operation: not done,
\* done with speech transcriptions, done with labels, done with an error and
\* no response ("done_error"), or no answer at all ("failed").
PollReplies == {"running", "speech", "labels", "done_error", "failed"}

\* getAnalysisResult whose guard forgets the 'error' marker.
getAnalysisResult_pollsError(token, operationId, remote) ==
  IF ~token \/ operationId \in {"light_complete", "completed"}
  THEN [fetched |-> FALSE, result |-> "null"]
  ELSE CASE remote = "running" -> [fetched |-> TRUE, result |-> "pending"]
         [] remote = "speech" -> [fetched |-> TRUE, result |-> "done", content |-> "[0s] transcript"]
         [] remote = "labels" -> [fetched |-> TRUE, result |-> "done", content |-> "Labels: None"]
         [] OTHER -> [fetched |-> TRUE, result |-> "throws"]

\* getAnalysisResult(operationId): whether the fetch is issued, and the value
\* it resolves to ("throws" when data.response is missing or the fetch fails).
getAnalysisResult(token, operationId, remote) ==
  IF ~token \/ operationId \in {"light_complete", "error", "completed"}
  THEN [fetched |-> FALSE, result |-> "null"]
  ELSE CASE remote = "running" -> [fetched |-> TRUE, result |-> "pending"]
         [] remote = "speech" -> [fetched |-> TRUE, result |-> "done", content |-> "[0s] transcript"]
         [] remote = "labels" -> [fetched |-> TRUE, result |-> "done", content |-> "Labels: None"]
         [] OTHER -> [fetched |-> TRUE, result |-> "throws"]

Init ==
  /\ accessToken = FALSE
  /\ db = [a \in {} |-> NewMediaFile(a)]
  /\ registryFiles = <<>>
  /\ activePhase = "null"
  /\ analyzingId = "null"
  /\ job = Idle
  /\ polls = {}
  /\ nextOp = 0
  /\ clicks = 0
  /\ xml = <<>>
  /\ bucket = <<>>
  /\ requests = <<>>
  /\ mirrored = {}
  /\ uploads = <<>>
  /\ masterBuffer = <<>>
  /\ slaveBuffer = <<>>
  /\ bestOffset = <<>>

\* login: the token client calls back with an access token.
login ==
  /\ ~accessToken
  /\ accessToken' = TRUE
  /\ UNCHANGED <<db, registryFiles, activePhase, analyzingId, job, polls, nextOp, clicks>>
  /\ UNCHANGED <<xml, mirrorVars, waveVars>>

\* Index Folder: every discovered file is upserted as a new mediaFile, then
\* the table is refreshed.
handleFolderSelected ==
  /\ accessToken
  /\ clicks < MaxClicks
  /\ clicks' = clicks + 1
  /\ LET RECURSIVE put(_, _)
         put(store, i) == IF i > Len(Folder) THEN store
                          ELSE put(upsertMedia(store, NewMediaFile(Folder[i])), i + 1)
     IN /\ db' = put(db, 1)
        /\ registryFiles' = getAllMedia(db')
  /\ UNCHANGED <<accessToken, activePhase, analyzingId, job, polls, nextOp>>
  /\ UNCHANGED <<xml, mirrorVars, waveVars>>

\* Reset: clearRegistry(), setRegistryFiles([]).
handleReset ==
  /\ accessToken
  /\ clicks < MaxClicks
  /\ clicks' = clicks + 1
  /\ db' = clearRegistry(db)
  /\ registryFiles' = <<>>
  /\ UNCHANGED <<accessToken, activePhase, analyzingId, job, polls, nextOp>>
  /\ UNCHANGED <<xml, mirrorVars, waveVars>>

\* ------------------------------------------------------- phase handlers
\* Handlers that run as a loop over a list of registry records.
BatchPhases == {"Tech Specs", "Categorization", "B-Roll Mapping", "Transcription", "Analyze"}

\* handleTechSpecs: targets, the phase it passes, the record it upserts.
handleTechSpecs_targets(files) ==
  SelectSeq(files, LAMBDA f : f.media_category = "video" \/ f.media_category = "audio")

\* data.tech_metadata?.x || default, field by field.
TechDefaults == [frame_rate_fraction |-> "25.000", total_frames |-> "0", width |-> 0, height |-> 0]

handleTechSpecs_upsert(file, data) ==
  LET probed == "tech_metadata" \in DOMAIN data
  IN Spread(file,
       [tech_metadata |-> IF probed THEN data.tech_metadata ELSE TechDefaults,
        last_forensic_stage |-> "tech",
        analysis_content |-> IF probed THEN "SMPTE TC | FPS"
                             ELSE "SMPTE TC: undefined | FPS: undefined"])

\* handleCategorization
handleCategorization_targets(files) ==
  SelectSeq(files, LAMBDA f : f.clip_type = "unknown")

handleCategorization_upsert(file, data) == Spread(file, data)

\* handleBRollMapping
handleBRollMapping_targets(files) ==
  SelectSeq(files, LAMBDA f : f.clip_type = "b-roll")

\* handleTranscribeMulticam: the first interview clip only.
handleTranscribeMulticam_targets(files) ==
  LET interviews == SelectSeq(files, LAMBDA f : f.clip_type = "interview")
  IN IF interviews = <<>> THEN <<>> ELSE <<interviews[1]>>

\* MediaTable shows the Analyze button on rows that are not in a deep pass.
isHeavyProcessing(file) ==
  file.operation_id \in {OpNames[n] : n \in 1..Len(OpNames)}

TargetsOf(phase, files) ==
  CASE phase = "Tech Specs" -> handleTechSpecs_targets(files)
    [] phase = "Categorization" -> handleCategorization_targets(files)
    [] phase = "B-Roll Mapping" -> handleBRollMapping_targets(files)
    [] phase = "Transcription" -> handleTranscribeMulticam_targets(files)

\* The phase argument of the handler's analyzeFile call.
PhaseArg(phase) ==
  CASE phase = "Tech Specs" -> "tech_specs"
    [] phase = "Categorization" -> "shot_type"
    [] phase = "B-Roll Mapping" -> "b_roll_desc"
    [] phase = "Transcription" -> "transcribe"
    [] phase = "Analyze" -> "undefined"

\* handleBRollMapping, handleTranscribeMulticam, handleAnalyze
handleHeavy_upsert(file, data) == Spread(file, data)

UpsertOf(phase, file, data) ==
  CASE phase = "Tech Specs" -> handleTechSpecs_upsert(file, data)
    [] phase = "Categorization" -> handleCategorization_upsert(file, data)
    [] OTHER -> handleHeavy_upsert(file, data)

\* A phase handler that starts its loop without setting activePhase.
PhaseStart_noFlag(phase) ==
  /\ accessToken
  /\ clicks < MaxClicks
  /\ clicks' = clicks + 1
  /\ activePhase = "null"
  /\ job = Idle
  /\ phase \in BatchPhases \ {"Analyze"}
  /\ phase = "Transcription" => TargetsOf(phase, registryFiles) # <<>>
  /\ job' = [phase |-> phase, targets |-> TargetsOf(phase, registryFiles), i |-> 1, log |-> <<>>]
  /\ UNCHANGED <<accessToken, db, registryFiles, activePhase, analyzingId, polls, nextOp>>
  /\ UNCHANGED <<xml, mirrorVars, waveVars>>

\* A phase button is clicked: the handler filters the registryFiles of its
\* render and sets activePhase.  An alerting/returning handler changes nothing.
PhaseStart(phase) ==
  /\ accessToken
  /\ clicks < MaxClicks
  /\ clicks' = clicks + 1
  /\ activePhase = "null"
  /\ job = Idle
  /\ phase \in BatchPhases \ {"Analyze"}
  /\ phase = "Transcription" => TargetsOf(phase, registryFiles) # <<>>
  /\ activePhase' = phase
  /\ job' = [phase |-> phase, targets |-> TargetsOf(phase, registryFiles), i |-> 1, log |-> <<>>]
  /\ UNCHANGED <<accessToken, db, registryFiles, analyzingId, polls, nextOp>>
  /\ UNCHANGED <<xml, mirrorVars, waveVars>>

\* handleAnalyze(file): the row's Analyze button.
handleAnalyze(k) ==
  /\ accessToken
  /\ clicks < MaxClicks
  /\ clicks' = clicks + 1
  /\ analyzingId = "null"
  /\ job = Idle
  /\ k \in 1..Len(registryFiles)
  /\ ~isHeavyProcessing(registryFiles[k])
  /\ job' = [phase |-> "Analyze", targets |-> <<registryFiles[k]>>, i |-> 1, log |-> <<>>]
  /\ UNCHANGED <<accessToken, db, registryFiles, activePhase, analyzingId, polls, nextOp>>
  /\ UNCHANGED <<xml, mirrorVars, waveVars>>

\* One loop iteration: setAnalyzingId, await analyzeFile, await upsertMedia.
PhaseStep(reply, isInterview) ==
  /\ job.phase \in BatchPhases
  /\ job.i <= Len(job.targets)
  /\ LET file == job.targets[job.i]
         arg == PhaseArg(job.phase)
         route == Route(file, arg)
         submits == accessToken /\ reply = "ok" /\ route \in {"b_roll_desc", "transcribe"}
         name == OpNames[nextOp + 1]
         res == analyzeFile(accessToken, file, arg, reply, isInterview, name)
     IN /\ submits => nextOp < MaxOps
        /\ isInterview => (reply = "ok" /\ route = "discovery")
        /\ nextOp' = IF submits THEN nextOp + 1 ELSE nextOp
        /\ analyzingId' = file.drive_id
        /\ db' = IF res.threw THEN db
                 ELSE upsertMedia(db, UpsertOf(job.phase, file, res.data))
        /\ job' = [job EXCEPT !.i = @ + 1, !.log = Append(@, reply)]
  /\ UNCHANGED <<accessToken, registryFiles, activePhase, polls, clicks>>
  /\ UNCHANGED <<xml, mirrorVars, waveVars>>

\* An end of the loop that releases activePhase only.
PhaseEnd_keepsAnalyzingId ==
  /\ job.phase \in BatchPhases
  /\ job.i > Len(job.targets)
  /\ activePhase' = "null"
  /\ registryFiles' = getAllMedia(db)
  /\ job' = Idle
  /\ UNCHANGED <<accessToken, db, analyzingId, polls, nextOp, clicks>>
  /\ UNCHANGED <<xml, mirrorVars, waveVars>>

\* After the loop: setAnalyzingId(null), setActivePhase(null), refreshRegistry.
PhaseEnd ==
  /\ job.phase \in BatchPhases
  /\ job.i > Len(job.targets)
  /\ analyzingId' = "null"
  /\ activePhase' = "null"
  /\ registryFiles' = getAllMedia(db)
  /\ job' = Idle
  /\ UNCHANGED <<accessToken, db, polls, nextOp, clicks>>
  /\ UNCHANGED <<xml, mirrorVars, waveVars>>

\* -------------------------------------------------------- relational sync
\* Offsets (seconds) calculateOffset can report for a slave.
OffsetSeconds == {0, 2}

\* A frame rate string as the exact rational <<num, den>>: "num/den" is split
\* on '/', a decimal string goes through parseFloat.
parseFps(fpsString) ==
  CASE fpsString = "25/1" -> <<25, 1>>
    [] fpsString = "24/1" -> <<24, 1>>
    [] fpsString = "30000/1001" -> <<30000, 1001>>
    [] fpsString = "25.000" -> <<25, 1>>
    [] fpsString = "25" -> <<25, 1>>

\* fpsValue: 25 unless tech_metadata carries a frame_rate_fraction string.
fpsValue(tech) ==
  IF tech = NoTech THEN <<25, 1>> ELSE parseFps(tech.frame_rate_fraction)

\* Math.round(offset * fpsValue) for a non-negative offset.
frameOffset(offset, tech) ==
  LET num == fpsValue(tech)[1]
      den == fpsValue(tech)[2]
  IN (2 * offset * num + den) \div (2 * den)

handleRelationalSync_masterAudio(files) ==
  SelectSeq(files, LAMBDA f : f.media_category = "audio" /\ f.clip_type = "interview")

handleRelationalSync_videoAngles(files) ==
  SelectSeq(files, LAMBDA f : f.clip_type = "interview" /\ f.media_category = "video")

\* handleRelationalSync up to `await syncFiles(...)`; the two alert-and-return
\* paths change nothing.
handleRelationalSync_start ==
  /\ accessToken
  /\ clicks < MaxClicks
  /\ clicks' = clicks + 1
  /\ activePhase = "null"
  /\ job = Idle
  /\ LET masterAudio == handleRelationalSync_masterAudio(registryFiles)
         videoAngles == handleRelationalSync_videoAngles(registryFiles)
         checked == <<masterAudio[1]>> \o videoAngles
     IN /\ masterAudio # <<>>
        /\ videoAngles # <<>>
        /\ \A k \in 1..Len(checked) : checked[k].tech_metadata # NoTech
        /\ job' = [phase |-> "Relational Sync", targets |-> checked, i |-> 1, log |-> <<>>]
  /\ activePhase' = "Relational Sync"
  /\ UNCHANGED <<accessToken, db, registryFiles, analyzingId, polls, nextOp>>
  /\ UNCHANGED <<xml, mirrorVars, waveVars>>

\* syncFiles that gives up at the first slave it cannot decode.
syncFiles_stopsAtUndecodable(slaves, masterOk, decodable, offset) ==
  IF ~masterOk THEN <<>>
  ELSE LET RECURSIVE upTo(_)
           upTo(k) == IF k > Len(slaves) \/ slaves[k].drive_id \notin decodable THEN <<>>
                      ELSE <<[drive_id |-> slaves[k].drive_id, offset |-> offset[slaves[k].drive_id]]>>
                           \o upTo(k + 1)
       IN upTo(1)

\* syncFiles(master, slaves): [] when the master cannot be decoded, else one
\* result per decodable slave.
syncFiles(slaves, masterOk, decodable, offset) ==
  IF ~masterOk THEN <<>>
  ELSE LET hit == SelectSeq(slaves, LAMBDA f : f.drive_id \in decodable)
       IN [k \in 1..Len(hit) |-> [drive_id |-> hit[k].drive_id, offset |-> offset[hit[k].drive_id]]]

\* The record handleRelationalSync upserts for one result.
handleRelationalSync_upsert(file, res) ==
  Spread(file, [sync_offset_frames |-> frameOffset(res.offset, file.tech_metadata),
                last_forensic_stage |-> "sync"])

\* handleRelationalSync after `await syncFiles(...)`: no results throws into
\* the catch; otherwise every result is upserted and the table refreshed.
\* finally: setActivePhase(null).
handleRelationalSync_finish(masterOk, decodable, offset) ==
  /\ job.phase = "Relational Sync"
  /\ LET slaves == Tail(job.targets)
         results == syncFiles(slaves, masterOk, decodable, offset)
         fileOf(id) == CHOOSE f \in {slaves[k] : k \in 1..Len(slaves)} : f.drive_id = id
         RECURSIVE put(_, _)
         put(store, k) == IF k > Len(results) THEN store
                          ELSE put(upsertMedia(store,
                                     handleRelationalSync_upsert(fileOf(results[k].drive_id), results[k])),
                                   k + 1)
     IN IF results = <<>>
        THEN UNCHANGED <<db, registryFiles>>
        ELSE /\ db' = put(db, 1)
             /\ registryFiles' = getAllMedia(db')
  /\ activePhase' = "null"
  /\ job' = Idle
  /\ UNCHANGED <<accessToken, analyzingId, polls, nextOp, clicks>>
  /\ UNCHANGED <<xml, mirrorVars, waveVars>>

\* ---------------------------------------------------------------- poller
isPending(f) ==
  f.operation_id # NoOp /\ f.operation_id \notin {"completed", "light_complete", "error"}

\* handleCheckStatus(file) up to its await: TRUE when the remote poll is issued.
handleCheckStatus_polls(token, file) ==
  /\ ~(file.operation_id = NoOp \/ file.operation_id \in {"completed", "light_complete", "error"})
  /\ getAnalysisResult(token, file.operation_id, "running").fetched

\* The setInterval callback: one handleCheckStatus per pending row.
pollInterval ==
  /\ LET pending == SelectSeq(registryFiles, isPending)
         issued == {pending[k] : k \in {n \in 1..Len(pending) :
                                          handleCheckStatus_polls(accessToken, pending[n])}}
     IN /\ Len(pending) > 0
        /\ polls' = polls \cup issued
        /\ polls' # polls
  /\ UNCHANGED <<accessToken, db, registryFiles, activePhase, analyzingId, job, nextOp, clicks>>
  /\ UNCHANGED <<xml, mirrorVars, waveVars>>

\* The record handleCheckStatus upserts when the poll says done.
handleCheckStatus_upsert(file, content) ==
  Spread(file, [analysis_content |-> content, operation_id |-> "completed"])

\* handleCheckStatus(file) after its await: the poll reply arrives.
handleCheckStatus(file, remote) ==
  /\ file \in polls
  /\ polls' = polls \ {file}
  /\ LET r == getAnalysisResult(accessToken, file.operation_id, remote)
     IN IF r.result = "done"
        THEN /\ db' = upsertMedia(db, handleCheckStatus_upsert(file, r.content))
             /\ registryFiles' = getAllMedia(db')
        ELSE UNCHANGED <<db, registryFiles>>
  /\ UNCHANGED <<accessToken, activePhase, analyzingId, job, nextOp, clicks>>
  /\ UNCHANGED <<xml, mirrorVars, waveVars>>

Next ==
  \/ login
  \/ handleFolderSelected
  \/ handleReset
  \/ \E phase \in BatchPhases : PhaseStart(phase)
  \/ \E k \in 1..Len(Order) : handleAnalyze(k)
  \/ \E reply \in Replies, isInterview \in BOOLEAN : PhaseStep(reply, isInterview)
  \/ PhaseEnd
  \/ handleRelationalSync_start
  \/ \E masterOk \in BOOLEAN, decodable \in SUBSET Assets, offset \in [Assets -> OffsetSeconds] :
        /\ decodable \subseteq {job.targets[k].drive_id : k \in 2..Len(job.targets)}
        /\ \A a \in Assets \ decodable : offset[a] = 0
        /\ ~masterOk => decodable = {}
        /\ handleRelationalSync_finish(masterOk, decodable, offset)
  \/ pollInterval
  \/ \E file \in polls, remote \in PollReplies : handleCheckStatus(file, remote)

Spec == Init /\ [][Next]_vars

\* ------------------------------------------------------------ XML exporter
\* Math.round(n / d) for n >= 0, d > 0.
Round(n, d) == (2 * n + d) \div (2 * d)

\* parseInt(total_frames, 10)
parseInt(str) ==
  CASE str = "0" -> 0
    [] str = "48" -> 48
    [] str = "100" -> 100
    [] str = "300" -> 300

\* filename.replace(/[^a-zA-Z0-9]/g, '')
cleanId(filename) ==
  SelectSeq(filename, LAMBDA ch : ch \notin {"-", "_", ".", " "})

\* files.find(f => f.media_category === 'video' && f.tech_metadata?.frame_rate_fraction),
\* as a sequence of at most one file.
generateXML_firstVideo(files) ==
  LET found == SelectSeq(files, LAMBDA f : f.media_category = "video" /\ f.tech_metadata # NoTech)
  IN IF found = <<>> THEN <<>> ELSE <<found[1]>>

\* TIMELINE_FPS through parseFloat alone: the digits before '/'.
TIMELINE_FPS_parseFloat(files) ==
  LET firstVideo == generateXML_firstVideo(files)
  IN IF firstVideo = <<>> THEN 25
     ELSE parseFps(firstVideo[1].tech_metadata.frame_rate_fraction)[1]

\* TIMELINE_FPS: 25, or Math.round(fpsValue) of the first video.
TIMELINE_FPS(files) ==
  LET firstVideo == generateXML_firstVideo(files)
  IN IF firstVideo = <<>> THEN 25
     ELSE LET fps == parseFps(firstVideo[1].tech_metadata.frame_rate_fraction)
          IN Round(fps[1], fps[2])

\* IS_NTSC: fpsValue % 1 !== 0 of the first video.
IS_NTSC(files) ==
  LET firstVideo == generateXML_firstVideo(files)
  IN IF firstVideo = <<>> THEN FALSE
     ELSE LET fps == parseFps(firstVideo[1].tech_metadata.frame_rate_fraction)
          IN fps[1] % fps[2] # 0

\* getSafeDuration that trusts total_frames whenever the string is there.
getSafeDuration_anyTotalFrames(file, timelineFps) ==
  LET tech == file.tech_metadata
  IN IF tech # NoTech
     THEN LET nativeFPS == parseFps(tech.frame_rate_fraction)
          IN Round(parseInt(tech.total_frames) * nativeFPS[2] * timelineFps, nativeFPS[1])
     ELSE IF file.duration > 0 THEN Round(file.duration * timelineFps, 1000)
     ELSE 250

\* getSafeDuration that returns total_frames as counted at the native rate.
getSafeDuration_nativeCount(file, timelineFps) ==
  LET tech == file.tech_metadata
      totalFrames == IF tech = NoTech THEN 0 ELSE parseInt(tech.total_frames)
  IN IF totalFrames > 0 THEN totalFrames
     ELSE IF file.duration > 0 THEN Round(file.duration * timelineFps, 1000)
     ELSE 250

\* getSafeDuration(file): total_frames at the native rate, else duration in
\* milliseconds, else the 250 frame fallback.
getSafeDuration(file, timelineFps) ==
  LET tech == file.tech_metadata
      totalFrames == IF tech = NoTech THEN 0 ELSE parseInt(tech.total_frames)
  IN IF totalFrames > 0
     THEN LET nativeFPS == parseFps(tech.frame_rate_fraction)
          IN Round(totalFrames * nativeFPS[2] * timelineFps, nativeFPS[1])
     ELSE IF file.duration > 0 THEN Round(file.duration * timelineFps, 1000)
     ELSE 250

\* videoAngles without the clip_type test.
generateXML_videoAngles_anyVideo(files) ==
  SelectSeq(files, LAMBDA f : f.media_category = "video")

generateXML_videoAngles(files) ==
  SelectSeq(files, LAMBDA f : f.clip_type = "interview" /\ f.media_category = "video")

generateXML_masterAudio(files) ==
  SelectSeq(files, LAMBDA f : f.clip_type = "interview" /\ f.media_category = "audio")

\* The <file> element of a video clip item with every dimension copied from
\* the technical metadata as it is.
generateXML_videoFile_rawDimensions(file, duration, timelineFps) ==
  LET tech == file.tech_metadata
      hasTech == tech # NoTech
      fps == IF hasTech THEN parseFps(tech.frame_rate_fraction) ELSE <<timelineFps, 1>>
      frames == IF hasTech THEN parseInt(tech.total_frames) ELSE 0
  IN [duration |-> IF frames > 0 THEN frames ELSE duration,
      timebase |-> Round(fps[1], fps[2]),
      width |-> IF hasTech THEN tech.width ELSE 1920,
      height |-> IF hasTech THEN tech.height ELSE 1080]

\* The <file> element of a video clip item: nativeFrameCount, nativeFPS and
\* the sample characteristics.
generateXML_videoFile(file, duration, timelineFps) ==
  LET tech == file.tech_metadata
      hasTech == tech # NoTech
      fps == IF hasTech THEN parseFps(tech.frame_rate_fraction) ELSE <<timelineFps, 1>>
      frames == IF hasTech THEN parseInt(tech.total_frames) ELSE 0
  IN [duration |-> IF frames > 0 THEN frames ELSE duration,
      timebase |-> Round(fps[1], fps[2]),
      width |-> IF hasTech /\ tech.width # 0 THEN tech.width ELSE 1920,
      height |-> IF hasTech /\ tech.height # 0 THEN tech.height ELSE 1080]

\* The <clipitem> of the idx-th video track (idx counts from 0).
generateXML_videoClip(file, idx, timelineFps) ==
  LET duration == getSafeDuration(file, timelineFps)
      start == file.sync_offset_frames
  IN [id |-> <<cleanId(file.filename), idx>>,
      name |-> file.filename,
      duration |-> duration,
      start |-> start,
      end |-> start + duration,
      file |-> <<cleanId(file.filename), 2>>,
      media |-> generateXML_videoFile(file, duration, timelineFps),
      links |-> << <<cleanId(file.filename), idx>>, <<cleanId(file.filename), 3>> >>]

\* A camera scratch clip that links to itself only.
generateXML_scratchClip_selfLink(file, idx, timelineFps) ==
  LET duration == getSafeDuration(file, timelineFps)
      start == file.sync_offset_frames
  IN [id |-> <<cleanId(file.filename), 3>>,
      name |-> file.filename,
      duration |-> duration,
      start |-> start,
      end |-> start + duration,
      file |-> <<cleanId(file.filename), 2>>,
      links |-> << <<cleanId(file.filename), 3>> >>]

\* The <clipitem> of a camera scratch audio track.
generateXML_scratchClip(file, idx, timelineFps) ==
  LET duration == getSafeDuration(file, timelineFps)
      start == file.sync_offset_frames
  IN [id |-> <<cleanId(file.filename), 3>>,
      name |-> file.filename,
      duration |-> duration,
      start |-> start,
      end |-> start + duration,
      file |-> <<cleanId(file.filename), 2>>,
      links |-> << <<cleanId(file.filename), idx>>, <<cleanId(file.filename), 3>> >>]

\* The <clipitem> of a master audio track.
generateXML_masterClip(file, timelineFps) ==
  LET duration == getSafeDuration(file, timelineFps)
  IN [id |-> <<cleanId(file.filename), 0>>,
      name |-> file.filename,
      duration |-> duration,
      start |-> 0,
      end |-> duration,
      file |-> <<cleanId(file.filename), 1>>,
      links |-> <<>>]

\* generateXML(files): the sequence rate and the clip items of the <video>
\* and <audio> sections, in document order.
generateXML(files) ==
  LET fps == TIMELINE_FPS(files)
      videoAngles == generateXML_videoAngles(files)
      masterAudio == generateXML_masterAudio(files)
  IN [timebase |-> fps,
      ntsc |-> IS_NTSC(files),
      video |-> [k \in 1..Len(videoAngles) |-> generateXML_videoClip(videoAngles[k], k - 1, fps)],
      audio |-> [k \in 1..Len(videoAngles) |-> generateXML_scratchClip(videoAngles[k], k - 1, fps)]
                \o [k \in 1..Len(masterAudio) |-> generateXML_masterClip(masterAudio[k], fps)]]

\* Export Sync XML: generateXML(registryFiles), downloadXML(xml).
handleExportXML ==
  /\ xml' = generateXML(registryFiles)
  /\ xml' # xml
  /\ UNCHANGED <<accessToken, db, registryFiles, activePhase, analyzingId, job, polls, nextOp, clicks>>
  /\ UNCHANGED <<mirrorVars, waveVars>>

\* Registries of a three-file shoot after Categorization and Tech Specs, and
\* after an earlier alignment: what the metadata service reported per file,
\* Drive's durationMillis, the stored offsets.
TechChoices ==
  {NoTech, TechDefaults, ProbeOf("a1"), ProbeOf("v1"),
   [frame_rate_fraction |-> "24/1", total_frames |-> "48", width |-> 1280, height |-> 720],
   [frame_rate_fraction |-> "30000/1001", total_frames |-> "0", width |-> 0, height |-> 0]}

Categorized(a, clipType, tech, duration, offset) ==
  Spread(NewMediaFile(a),
    [clip_type |-> clipType,
     operation_id |-> "light_complete",
     analysis_content |-> IF clipType = "interview" THEN "Discovery: Interview"
                          ELSE "Discovery: B-Roll",
     last_forensic_stage |-> "light",
     tech_metadata |-> tech,
     duration |-> duration,
     sync_offset_frames |-> offset])

ShootRegistries ==
  {[a \in Assets |-> IF a = "a1" THEN Categorized(a, ct[a], tech[a], 0, 0)
                     ELSE Categorized(a, ct[a], tech[a], dur[a], off[a])] :
     ct \in [Assets -> {"interview", "b-roll"}],
     tech \in {t \in [Assets -> TechChoices] : t["a1"] \in {NoTech, TechDefaults, ProbeOf("a1")}},
     dur \in {d \in [Assets -> {0, 4000}] : d["a1"] = 0 /\ d["v2"] = 4000},
     off \in {o \in [Assets -> {0, 10, 250}] : o["a1"] = 0 /\ o["v1"] # 250 /\ o["v2"] # 10}}

ExportInit ==
  /\ accessToken = TRUE
  /\ db \in ShootRegistries
  /\ registryFiles = getAllMedia(db)
  /\ activePhase = "null"
  /\ analyzingId = "null"
  /\ job = Idle
  /\ polls = {}
  /\ nextOp = 0
  /\ clicks = 0
  /\ xml = <<>>
  /\ bucket = <<>>
  /\ requests = <<>>
  /\ mirrored = {}
  /\ uploads = <<>>
  /\ masterBuffer = <<>>
  /\ slaveBuffer = <<>>
  /\ bestOffset = <<>>

ExportNext ==
  \/ handleExportXML
  \/ handleRelationalSync_start
  \/ \E masterOk \in BOOLEAN, decodable \in SUBSET Assets, offset \in [Assets -> OffsetSeconds] :
        /\ decodable \subseteq {job.targets[k].drive_id : k \in 2..Len(job.targets)}
        /\ \A a \in Assets \ decodable : offset[a] = 0
        /\ ~masterOk => decodable = {}
        /\ handleRelationalSync_finish(masterOk, decodable, offset)

ExportSpec == ExportInit /\ [][ExportNext]_vars

\* ------------------------------------------------- progress of the app
\* One loop iteration whose upsertMedia rejects (store.put fails); a job
\* submitted by the iteration keeps running remotely.  handleTechSpecs and
\* handleCategorization catch inside the loop body and go on; handleAnalyze
\* skips its refresh and releases analyzingId in its finally;
\* handleBRollMapping and handleTranscribeMulticam have no catch: the handler
\* ends there and neither flag is released.
PhaseStep_writeRejects ==
  /\ job.phase \in BatchPhases
  /\ job.i <= Len(job.targets)
  /\ LET file == job.targets[job.i]
         submits == accessToken /\ Route(file, PhaseArg(job.phase)) \in {"b_roll_desc", "transcribe"}
     IN /\ submits => nextOp < MaxOps
        /\ nextOp' = IF submits THEN nextOp + 1 ELSE nextOp
        /\ analyzingId' = IF job.phase = "Analyze" THEN "null" ELSE file.drive_id
        /\ job' = IF job.phase \in {"Tech Specs", "Categorization"}
                  THEN [job EXCEPT !.i = @ + 1, !.log = Append(@, "ok")]
                  ELSE Idle
  /\ UNCHANGED <<accessToken, db, registryFiles, activePhase, polls, clicks>>
  /\ UNCHANGED <<xml, mirrorVars, waveVars>>

\* Registries with remote jobs running and one user command still to come.
\* An interview shoot after Index
\* Folder, Categorization, Tech Specs and Transcription: the first interview
\* file holds the handle of its job.  A B-roll folder after Index Folder,
\* Categorization and B-Roll Mapping: every file holds a handle.
FolderAssets == {Folder[k] : k \in 1..Len(Folder)}

Submitted(store, phase) ==
  LET targets == TargetsOf(phase, getAllMedia(store))
      RECURSIVE put(_, _)
      put(st, k) ==
        IF k > Len(targets) THEN st
        ELSE LET file == targets[k]
                 res == runHeavyPass(file, Route(file, PhaseArg(phase)), "ok", OpNames[k])
             IN put(upsertMedia(st, handleHeavy_upsert(file, res.data)), k + 1)
  IN [store |-> put(store, 1), nextOp |-> Len(targets)]

LiveRegistries ==
  {Submitted([a \in FolderAssets |->
                LET file == Categorized(a, "interview", NoTech, DurationOf(a), 0)
                IN handleTechSpecs_upsert(file, runTechPass(file, "ok"))],
             "Transcription"),
   Submitted([a \in FolderAssets |-> Categorized(a, "b-roll", NoTech, DurationOf(a), 0)],
             "B-Roll Mapping")}

LiveInit ==
  /\ accessToken = TRUE
  /\ \E r \in LiveRegistries : db = r.store /\ nextOp = r.nextOp
  /\ registryFiles = getAllMedia(db)
  /\ activePhase = "null"
  /\ analyzingId = "null"
  /\ job = Idle
  /\ polls = {}
  /\ clicks = MaxClicks - 1
  /\ xml = <<>>
  /\ bucket = <<>>
  /\ requests = <<>>
  /\ mirrored = {}
  /\ uploads = <<>>
  /\ masterBuffer = <<>>
  /\ slaveBuffer = <<>>
  /\ bestOffset = <<>>

\* The remote call of the running loop iteration settles.
LoopStep ==
  \/ \E reply \in Replies, isInterview \in BOOLEAN : PhaseStep(reply, isInterview)
  \/ PhaseStep_writeRejects

\* syncFiles settles.
SyncSettles ==
  \E masterOk \in BOOLEAN, decodable \in SUBSET Assets, offset \in [Assets -> OffsetSeconds] :
    /\ decodable \subseteq {job.targets[k].drive_id : k \in 2..Len(job.targets)}
    /\ \A a \in Assets \ decodable : offset[a] = 0
    /\ ~masterOk => decodable = {}
    /\ handleRelationalSync_finish(masterOk, decodable, offset)

\* The poll of asset a is answered: done, with a response.
PollDone(a) ==
  \E file \in polls, remote \in {"speech", "labels"} :
    file.drive_id = a /\ handleCheckStatus(file, remote)

LiveNext ==
  \/ handleFolderSelected
  \/ handleReset
  \/ \E phase \in BatchPhases : PhaseStart(phase)
  \/ \E k \in 1..Len(Order) : handleAnalyze(k)
  \/ LoopStep
  \/ PhaseEnd
  \/ handleRelationalSync_start
  \/ SyncSettles
  \/ pollInterval
  \/ \E file \in polls, remote \in PollReplies : handleCheckStatus(file, remote)

\* Every awaited call of a running handler settles, the 10 second timer
\* fires once the view stops changing, and the remote job of a polled asset
\* is eventually done with a response.
LiveSpec ==
  /\ LiveInit
  /\ [][LiveNext]_vars
  /\ WF_vars(LoopStep)
  /\ WF_vars(PhaseEnd)
  /\ WF_vars(SyncSettles)
  /\ WF_vars(pollInterval)
  /\ \A a \in FolderAssets : SF_vars(PollDone(a))

\* Registries of a shoot indexed from nested folders: Drive keys files by id,
\* so the two cameras' files can carry the same name, or names that differ
\* in punctuation only.
CameraNames ==
  {FilenameOf("v1"), FilenameOf("v2"), <<"c", "_", "1", ".", "m", "p", "4">>}

NestedRegistries ==
  {[a \in Assets |->
      Spread(Categorized(a, ct[a], tech[a], DurationOf(a), 0),
             [filename |-> IF a = "a1" THEN FilenameOf(a) ELSE name[a]])] :
     ct \in [Assets -> {"interview", "b-roll"}],
     tech \in [Assets -> {NoTech, ProbeOf("v1")}],
     name \in [Assets -> CameraNames]}

NestedInit ==
  /\ accessToken = TRUE
  /\ db \in NestedRegistries
  /\ registryFiles = getAllMedia(db)
  /\ activePhase = "null"
  /\ analyzingId = "null"
  /\ job = Idle
  /\ polls = {}
  /\ nextOp = 0
  /\ clicks = 0
  /\ xml = <<>>
  /\ bucket = <<>>
  /\ requests = <<>>
  /\ mirrored = {}
  /\ uploads = <<>>
  /\ masterBuffer = <<>>
  /\ slaveBuffer = <<>>
  /\ bestOffset = <<>>

NestedNext == handleExportXML

NestedSpec == NestedInit /\ [][NestedNext]_vars

\* ------------------------------------------------------------ GCS mirror
\* What the network answers during one analyzeFile call: whether the
\* existence check is answered at all, the Drive download (a non-2xx response
\* still resolves, with the error body), the upload, the analysis call.
\* A request that is never issued after a failed one is listed as "ok".
NetReplies ==
  {net \in [check : {"answered", "rejects"},
            drive : {"ok", "http_error", "rejects"},
            upload : {"ok", "http_error", "rejects"},
            analysis : {"fail", "ok"}] :
     /\ net.check = "rejects" => net.drive = "ok" /\ net.upload = "ok"
     /\ net.drive = "rejects" => net.upload = "ok"
     /\ net.upload # "ok" => net.analysis = "ok"
     /\ (net.check = "rejects" \/ net.drive = "rejects") => net.analysis = "ok"}

\* Upload requests the bucket has stored under the object name.
Stored(counts, name) == IF name \in DOMAIN counts THEN counts[name] ELSE 0

\* syncToGCS without the existence check.
syncToGCS_alwaysUploads(file, store, net) ==
  LET name == file.filename
      blob == IF net.drive = "ok" THEN file.drive_id ELSE "error body"
  IN IF net.drive = "rejects"
     THEN [threw |-> TRUE, store |-> store, requests |-> <<"download">>]
     ELSE IF net.upload = "ok"
     THEN [threw |-> FALSE,
           store |-> [n \in DOMAIN store \cup {name} |-> IF n = name THEN blob ELSE store[n]],
           requests |-> <<"download", "upload">>]
     ELSE [threw |-> TRUE, store |-> store, requests |-> <<"download", "upload">>]

\* syncToGCS(file): the requests it issues, the bucket afterwards, and whether
\* it throws.  checkRes.ok is true exactly when the object exists.
syncToGCS(file, store, net) ==
  LET name == file.filename
      blob == IF net.drive = "ok" THEN file.drive_id ELSE "error body"
  IN IF net.check = "rejects"
     THEN [threw |-> TRUE, store |-> store, requests |-> <<"check">>]
     ELSE IF name \in DOMAIN store
     THEN [threw |-> FALSE, store |-> store, requests |-> <<"check">>]
     ELSE IF net.drive = "rejects"
     THEN [threw |-> TRUE, store |-> store, requests |-> <<"check", "download">>]
     ELSE IF net.upload = "ok"
     THEN [threw |-> FALSE,
           store |-> [n \in DOMAIN store \cup {name} |-> IF n = name THEN blob ELSE store[n]],
           requests |-> <<"check", "download", "upload">>]
     ELSE [threw |-> TRUE, store |-> store, requests |-> <<"check", "download", "upload">>]

\* The phase arguments the handlers pass to analyzeFile.
PhaseArgs == {"tech_specs", "shot_type", "b_roll_desc", "transcribe", "undefined"}

\* What analyzeFile sees of the network: a throwing syncToGCS, or the answer
\* of the analysis call.
ReplyOf(sync, net) == IF sync.threw THEN "mirror_fail" ELSE net.analysis

\* One analyzeFile(file, phase) call of the surveyor: syncToGCS, then the
\* routed analysis request.
analyzeFile_call(k, phase, net) ==
  /\ accessToken
  /\ k \in 1..Len(registryFiles)
  /\ LET file == registryFiles[k]
         sync == syncToGCS(file, bucket, net)
         stores == "upload" \in {sync.requests[n] : n \in 1..Len(sync.requests)} /\ ~sync.threw
     IN /\ stores => Stored(uploads, file.filename) < MaxUploads
        /\ bucket' = sync.store
        /\ requests' = IF sync.threw THEN sync.requests
                       ELSE Append(sync.requests, Route(file, phase))
        /\ mirrored' = IF sync.threw THEN mirrored ELSE mirrored \cup {file.drive_id}
        /\ uploads' = IF stores
                      THEN [n \in DOMAIN uploads \cup {file.filename} |->
                              IF n = file.filename THEN Stored(uploads, n) + 1 ELSE uploads[n]]
                      ELSE uploads
  /\ UNCHANGED <<accessToken, db, registryFiles, activePhase, analyzingId, job, polls, nextOp, clicks>>
  /\ UNCHANGED <<xml, waveVars>>

\* The surveyor over a freshly indexed three-file folder.
MirrorInit ==
  /\ accessToken = TRUE
  /\ db = [a \in Assets |-> NewMediaFile(a)]
  /\ registryFiles = getAllMedia(db)
  /\ activePhase = "null"
  /\ analyzingId = "null"
  /\ job = Idle
  /\ polls = {}
  /\ nextOp = 0
  /\ clicks = 0
  /\ xml = <<>>
  /\ bucket = <<>>
  /\ requests = <<>>
  /\ mirrored = {}
  /\ uploads = <<>>
  /\ masterBuffer = <<>>
  /\ slaveBuffer = <<>>
  /\ bestOffset = <<>>

MirrorNext ==
  \E k \in 1..Len(Order), phase \in PhaseArgs, net \in NetReplies : analyzeFile_call(k, phase, net)

MirrorSpec == MirrorInit /\ [][MirrorNext]_vars

\* ------------------------------------------------------- waveform matcher
\* for (let offset = 0; offset < scanWindow; offset += 50)
Stride == 50

\* for (let i = 0; i < 2000; i++)
Window == 2000

\* sampleRate * 60
ScanSeconds == 60

\* An AudioBuffer: its sample rate and channel 0, samples scaled to integers.
AudioBuffer(rate, data) == [sampleRate |-> rate, data |-> data]

\* data[i] of a Float32Array, 0 standing for both 0 and the undefined read
\* past its end (either one is falsy).
Sample(data, i) == IF i < Len(data) THEN data[i + 1] ELSE 0

Min(a, b) == IF a < b THEN a ELSE b

\* The inner loop: the sum of masterData[i + offset] * slaveData[i] over the
\* i < 2000 where both samples are truthy.
Correlation(masterData, slaveData, offset) ==
  LET term(i) == IF Sample(masterData, i + offset) # 0 /\ Sample(slaveData, i) # 0
                 THEN Sample(masterData, i + offset) * Sample(slaveData, i)
                 ELSE 0
      RECURSIVE sum(_, _)
      sum(lo, hi) == IF lo > hi THEN 0
                     ELSE IF lo = hi THEN term(lo)
                     ELSE sum(lo, (lo + hi) \div 2) + sum((lo + hi) \div 2 + 1, hi)
  IN sum(0, Window - 1)

\* calculateOffset(masterBuffer, slaveBuffer): bestOffset / sampleRate, as the
\* pair <<bestOffset, sampleRate>>.
calculateOffset(master, slave) ==
  LET scanWindow == Min(Min(Len(master.data), Len(slave.data)), master.sampleRate * ScanSeconds)
      \* the loop from `offset` on, given the best so far; "none" is -Infinity
      RECURSIVE scan(_, _, _)
      scan(offset, best, max) ==
        IF offset >= scanWindow THEN best
        ELSE LET correlation == Correlation(master.data, slave.data, offset)
             IN IF max = <<>> \/ correlation > max[1]
                THEN scan(offset + Stride, offset, <<correlation>>)
                ELSE scan(offset + Stride, best, max)
  IN <<scan(0, 0, <<>>), master.sampleRate>>

\* Synthetic noise-free recordings, 300 samples each: silence with clicks.
Clicks(positions) == [i \in 1..300 |-> IF (i - 1) \in positions THEN 8 ELSE 0]

Masters ==
  {Clicks({130}), Clicks({200}), Clicks({260}), Clicks({140, 215}), Clicks({149, 150, 151}),
   Clicks({155, 170, 290})}

\* The slave recorder started `delay` samples after the master.
Delays == {0, 10, 25, 50, 60, 75, 100, 125, 140}

Delayed(data, delay) == SubSeq(data, delay + 1, Len(data))

WaveInit ==
  /\ accessToken = TRUE
  /\ db = [a \in {} |-> NewMediaFile(a)]
  /\ registryFiles = <<>>
  /\ activePhase = "null"
  /\ analyzingId = "null"
  /\ job = Idle
  /\ polls = {}
  /\ nextOp = 0
  /\ clicks = 0
  /\ xml = <<>>
  /\ bucket = <<>>
  /\ requests = <<>>
  /\ mirrored = {}
  /\ uploads = <<>>
  /\ \E data \in Masters, delay \in Delays :
       /\ masterBuffer = AudioBuffer(48000, data)
       /\ slaveBuffer = AudioBuffer(48000, Delayed(data, delay))
  /\ bestOffset = <<>>

\* syncFiles calls calculateOffset on the two decoded buffers.
calculateOffset_call ==
  /\ bestOffset = <<>>
  /\ bestOffset' = calculateOffset(masterBuffer, slaveBuffer)
  /\ UNCHANGED <<accessToken, db, registryFiles, activePhase, analyzingId, job, polls, nextOp, clicks>>
  /\ UNCHANGED <<xml, mirrorVars, masterBuffer, slaveBuffer>>

WaveNext == calculateOffset_call

WaveSpec == WaveInit /\ [][WaveNext]_vars

\* ================================================================ claims
Failures == {"mirror_fail", "fail"}

\* The record the running handler is about to process.
Current == job.targets[job.i]

\* C1: a poll completion is applied only if the persisted operation handle of
\* the asset is still the in-flight handle that was polled; a result arriving
\* after the record was reset, re-classified or finished is discarded.
C1_StalePollDiscarded ==
  [][\A file \in polls, remote \in PollReplies :
       (handleCheckStatus(file, remote) /\ db' # db)
         => /\ file.drive_id \in DOMAIN db
            /\ db[file.drive_id].operation_id = file.operation_id]_vars

\* Fields of asset a outside F keep their persisted value across the step.
Kept(a, F) ==
  (a \in DOMAIN db /\ a \in DOMAIN db')
    => \A f \in DOMAIN db[a] \ F : db'[a][f] = db[a][f]

\* C2: every registry write is a field-level merge: the poller's write leaves
\* tech_metadata, clip_type, last_forensic_stage and sync_offset_frames at
\* their persisted values, the Tech Specs write and the alignment write leave
\* operation_id at its persisted value.
C2_FieldLevelMerge ==
  [][/\ \A file \in polls, remote \in PollReplies :
          handleCheckStatus(file, remote)
            => Kept(file.drive_id, {"analysis_content", "operation_id"})
     /\ \A reply \in Replies :
          (job.phase = "Tech Specs" /\ PhaseStep(reply, FALSE))
            => Kept(Current.drive_id, {"tech_metadata", "last_forensic_stage", "analysis_content"})
     /\ \A masterOk \in BOOLEAN, decodable \in SUBSET Assets, offset \in [Assets -> OffsetSeconds] :
          handleRelationalSync_finish(masterOk, decodable, offset)
            => \A a \in Assets : Kept(a, {"sync_offset_frames", "last_forensic_stage"})]_vars

\* C3: getAnalysisResult of a terminal handle resolves to null without a
\* fetch, and no remote poll is ever in flight for a record whose
\* operation_id is absent or terminal.
C3_TerminalNeverPolled ==
  /\ \A h \in TerminalHandles, token \in {accessToken, TRUE}, remote \in PollReplies :
       getAnalysisResult(token, h, remote) = [fetched |-> FALSE, result |-> "null"]
  /\ \A file \in polls : file.operation_id \notin TerminalHandles \cup {NoOp}

C3_Witness ==
  /\ polls # {}
  /\ \E k \in 1..Len(registryFiles) : registryFiles[k].operation_id \in TerminalHandles

\* C4: in a Categorization batch a failed remote call persists operation
\* 'error' with the error message for that asset and the loop goes on to the
\* next asset; every asset whose call succeeds is persisted as light_complete
\* whatever happened to the others; the handler ends only after every target
\* was processed.
C4_BatchIsolation ==
  [][/\ \A reply \in Replies, isInterview \in BOOLEAN :
          (job.phase = "Categorization" /\ PhaseStep(reply, isInterview))
            => /\ job'.phase = "Categorization"
               /\ job'.i = job.i + 1
               /\ Current.drive_id \in DOMAIN db'
               /\ reply = "mirror_fail"
                    => /\ db'[Current.drive_id].operation_id = "error"
                       /\ db'[Current.drive_id].analysis_content = MirrorError
               /\ reply = "fail"
                    => /\ db'[Current.drive_id].operation_id = "error"
                       /\ db'[Current.drive_id].analysis_content = DiscoveryError
               /\ reply = "ok"
                    => /\ db'[Current.drive_id].operation_id = "light_complete"
                       /\ db'[Current.drive_id].clip_type # "unknown"
     /\ (job.phase = "Categorization" /\ PhaseEnd)
          => Len(job.log) = Len(job.targets)]_vars

C4_Witness ==
  /\ job.phase = "Categorization"
  /\ \E k, j \in 1..Len(job.log) :
       /\ job.log[k] \in Failures
       /\ job.log[j] = "ok"
       /\ k < j
       /\ job.targets[k].drive_id \in DOMAIN db
       /\ job.targets[j].drive_id \in DOMAIN db
       /\ db[job.targets[k].drive_id].operation_id = "error"
       /\ db[job.targets[j].drive_id].operation_id = "light_complete"

\* C5: a failed technical probe in the Tech Specs batch persists operation
\* 'error' and the error text as analysis content, not a 'tech' stage with
\* placeholder content.
C5_ProbeFailurePersistsError ==
  [][\A reply \in Failures :
       (job.phase = "Tech Specs" /\ PhaseStep(reply, FALSE))
         => /\ Current.drive_id \in DOMAIN db'
            /\ db'[Current.drive_id].operation_id = "error"
            /\ db'[Current.drive_id].analysis_content \in {TechError, MirrorError}
            /\ db'[Current.drive_id].tech_metadata # TechDefaults]_vars

\* C6: a failed technical probe leaves the asset's persisted tech_metadata as
\* it was before the call.
C6_ProbeFailureKeepsMetadata ==
  [][\A reply \in Failures :
       (job.phase = "Tech Specs" /\ PhaseStep(reply, FALSE)
          /\ Current.drive_id \in DOMAIN db /\ Current.drive_id \in DOMAIN db')
         => db'[Current.drive_id].tech_metadata = db[Current.drive_id].tech_metadata]_vars

\* C7: after a successful probe the persisted record carries the probe result
\* as tech_metadata, stage 'tech' and operation 'completed', whatever its
\* operation handle was before.
C7_ProbeSuccessCompleted ==
  [][(job.phase = "Tech Specs" /\ PhaseStep("ok", FALSE))
       => /\ Current.drive_id \in DOMAIN db'
          /\ db'[Current.drive_id].tech_metadata = ProbeOf(Current.drive_id)
          /\ db'[Current.drive_id].last_forensic_stage = "tech"
          /\ db'[Current.drive_id].operation_id = "completed"]_vars

\* The forensic stage of a persisted record: operation 'error' is the error
\* stage, a finished deep pass is 'completed', otherwise the last stage run.
StageOf(rec) ==
  IF rec.operation_id = "error" THEN "error"
  ELSE IF rec.operation_id = "completed" /\ rec.last_forensic_stage = "heavy" THEN "completed"
  ELSE IF rec.last_forensic_stage = NoStage THEN "none"
  ELSE rec.last_forensic_stage

Advances == {<<"none", "light">>, <<"light", "heavy">>, <<"light", "tech">>,
             <<"heavy", "completed">>, <<"tech", "completed">>}

\* C8: under phase invocations, poll completions and alignment runs the stage
\* of an asset only advances none -> light -> (heavy | tech) -> completed, or
\* enters 'error', or leaves 'error' by a phase handler's write; no other
\* value is persisted.
C8_StageOnlyAdvances ==
  [][\A a \in DOMAIN db \cap DOMAIN db' :
       (clicks' = clicks /\ db'[a] # db[a])
         => LET old == StageOf(db[a])
                new == StageOf(db'[a])
            IN /\ new \in {"none", "light", "heavy", "tech", "completed", "error"}
               /\ \/ new = old
                  \/ <<old, new>> \in Advances
                  \/ new = "error"
                  \/ old = "error" /\ job.phase \in BatchPhases /\ job' # job]_vars

\* The result of `phase` is already persisted for the record.
PhaseDone(rec, phase) ==
  CASE phase = "Tech Specs" -> rec.tech_metadata \notin {NoTech, TechDefaults}
    [] phase = "Categorization" -> rec.clip_type # "unknown"
    [] OTHER -> rec.last_forensic_stage = "heavy" /\ rec.operation_id \notin {NoOp, "error"}

\* C9: a batch phase issues no remote analysis call for an asset whose result
\* for that phase is already persisted.
C9_NoRepeatedRemoteWork ==
  [][\A reply \in {"fail", "ok"}, isInterview \in BOOLEAN :
       (job.phase \in BatchPhases \ {"Analyze"} /\ PhaseStep(reply, isInterview)
          /\ Current.drive_id \in DOMAIN db)
         => ~PhaseDone(db[Current.drive_id], job.phase)]_vars

\* The dispatch the routing policy prescribes for a call with no phase.
DefaultDispatch(file) ==
  IF file.clip_type = "unknown" THEN "discovery"
  ELSE IF file.media_category = "audio" \/ file.clip_type = "interview" THEN "transcribe"
  ELSE "b_roll_desc"

\* C10: analyzeFile called with no phase dispatches by the asset's state:
\* unknown -> category discovery, known and (audio or interview) ->
\* transcription, b-roll -> deep content mapping.
C10_DefaultDispatch ==
  (job.phase = "Analyze" /\ job.i = 1)
    => Route(Current, PhaseArg("Analyze")) = DefaultDispatch(Current)

\* One run of the waveform matcher over the slaves of the running alignment.
AlignmentRun(masterOk, decodable, offset) ==
  /\ job.phase = "Relational Sync"
  /\ decodable \subseteq {job.targets[k].drive_id : k \in 2..Len(job.targets)}
  /\ \A a \in Assets \ decodable : offset[a] = 0
  /\ ~masterOk => decodable = {}
  /\ handleRelationalSync_finish(masterOk, decodable, offset)

\* C13: the frame offset stored for a slave after alignment is
\* round(offsetSeconds x projectTimebase), with projectTimebase the integer
\* timebase generateXML selects for the sequence, never the slave's own rate.
C13_OffsetInProjectTimebase ==
  [][\A masterOk \in BOOLEAN, decodable \in SUBSET Assets, offset \in [Assets -> OffsetSeconds] :
       AlignmentRun(masterOk, decodable, offset)
         => \A a \in decodable :
              db'[a].sync_offset_frames = Round(offset[a] * TIMELINE_FPS(getAllMedia(db')), 1)]_vars

\* The clip items of a document, video section first.
ClipsOf(doc) == doc.video \o doc.audio

\* The registry file a clip item was built from.
SourceOf(clip) ==
  CHOOSE f \in {registryFiles[k] : k \in 1..Len(registryFiles)} : f.filename = clip.name

\* total_frames of a file as an integer, 0 when there is no technical metadata.
TotalFramesOf(f) ==
  IF f.tech_metadata = NoTech THEN 0 ELSE parseInt(f.tech_metadata.total_frames)

RatedVideos ==
  SelectSeq(registryFiles, LAMBDA f : f.media_category = "video" /\ f.tech_metadata # NoTech)

ClipsFrom(clips, f) == SelectSeq(clips, LAMBDA c : c.name = f.filename)

\* C17: the document holds exactly one video clip and one camera scratch
\* audio clip per interview video asset, one audio clip per interview audio
\* asset and no clip for any other asset; the two clips of an interview video
\* start at its stored sync offset, a master audio clip starts at frame 0.
C17_ClipsPerAsset ==
  [][handleExportXML
       => \A k \in 1..Len(registryFiles) :
            LET f == registryFiles[k]
                video == ClipsFrom(xml'.video, f)
                audio == ClipsFrom(xml'.audio, f)
            IN IF f.clip_type = "interview" /\ f.media_category = "video"
               THEN /\ Len(video) = 1 /\ Len(audio) = 1
                    /\ video[1].start = f.sync_offset_frames
                    /\ audio[1].start = f.sync_offset_frames
                    /\ audio[1].file = video[1].file
               ELSE IF f.clip_type = "interview" /\ f.media_category = "audio"
               THEN /\ Len(video) = 0 /\ Len(audio) = 1
                    /\ audio[1].start = 0
               ELSE Len(video) = 0 /\ Len(audio) = 0]_vars

\* Offsets 10 and 250 plus one master: 2 video and 3 audio clip items with
\* starts 10, 250 and 0.
C17_Witness ==
  /\ xml # <<>>
  /\ Len(xml.video) = 2 /\ Len(xml.audio) = 3
  /\ xml.video[1].start = 10 /\ xml.video[2].start = 250
  /\ xml.audio[1].start = 10 /\ xml.audio[2].start = 250 /\ xml.audio[3].start = 0

\* C18: the video clip of every interview video links to the id of its
\* camera scratch audio clip and the audio clip links to the id of its video
\* clip; every linkclipref of the document is the id of a clip item of the
\* document built from the same asset.
C18_ReciprocalLinks ==
  xml # <<>>
    => /\ Len(xml.audio) >= Len(xml.video)
       /\ \A k \in 1..Len(xml.video) :
            LET v == xml.video[k]
                a == xml.audio[k]
            IN /\ a.name = v.name
               /\ \E n \in 1..Len(v.links) : v.links[n] = a.id
               /\ \E n \in 1..Len(a.links) : a.links[n] = v.id
       /\ \A k \in 1..Len(ClipsOf(xml)) :
            LET c == ClipsOf(xml)[k]
            IN \A n \in 1..Len(c.links) :
                 \E j \in 1..Len(ClipsOf(xml)) :
                   /\ ClipsOf(xml)[j].id = c.links[n]
                   /\ ClipsOf(xml)[j].name = c.name

\* A document with two linked video/audio pairs and an unlinked master clip.
C18_Witness ==
  /\ xml # <<>>
  /\ Len(xml.video) = 2
  /\ Len(xml.audio) = 3
  /\ xml.video[2].links # <<>>
  /\ xml.audio[3].links = <<>>

\* C19: in an alignment run a slave that cannot be fetched or decoded gets no
\* result and its record is not written, while every decodable slave gets its
\* offset computed and stored; when the master cannot be decoded no record is
\* written at all.
C19_AlignmentFailureIsolation ==
  [][\A masterOk \in BOOLEAN, decodable \in SUBSET Assets, offset \in [Assets -> OffsetSeconds] :
       AlignmentRun(masterOk, decodable, offset)
         => /\ ~masterOk => db' = db
            /\ \A k \in 2..Len(job.targets) :
                 LET slave == job.targets[k]
                     a == slave.drive_id
                 IN IF a \in decodable
                    THEN /\ a \in DOMAIN db'
                         /\ db'[a].sync_offset_frames
                              = frameOffset(offset[a], slave.tech_metadata)
                    ELSE /\ a \in DOMAIN db <=> a \in DOMAIN db'
                         /\ a \in DOMAIN db => db'[a] = db[a]
            /\ \A a \in DOMAIN db : a \notin decodable => db'[a] = db[a]]_vars

\* Slave v1 could not be decoded and kept its offset 10, slave v2 was aligned
\* at 2 s.
C19_Witness ==
  /\ job = Idle
  /\ "v1" \in DOMAIN db /\ "v2" \in DOMAIN db
  /\ db["v1"].clip_type = "interview" /\ db["v2"].clip_type = "interview"
  /\ db["v1"].last_forensic_stage = "light"
  /\ db["v1"].sync_offset_frames = 10
  /\ db["v2"].last_forensic_stage = "sync"
  /\ db["v2"].sync_offset_frames = frameOffset(2, db["v2"].tech_metadata)

\* The analysis requests (probe, inference, job submission) of a request log.
AnalysisRequests(log) ==
  SelectSeq(log, LAMBDA r : r \in {"tech", "discovery", "b_roll_desc", "transcribe"})

\* C11: a classify call issues no remote analysis request unless the asset's
\* own content is in the bucket; when the object does not exist and the
\* download from Drive or the upload fails, the call issues no analysis
\* request and resolves to an error record, so that the batch goes on.
C11_MirrorBeforeAnalysis ==
  [][\A k \in 1..Len(Order), phase \in PhaseArgs, net \in NetReplies :
       analyzeFile_call(k, phase, net)
         => LET file == registryFiles[k]
                failed == /\ net.check = "answered"
                          /\ file.filename \notin DOMAIN bucket
                          /\ net.drive # "ok" \/ net.upload # "ok"
                res == analyzeFile(accessToken, file, phase,
                                   ReplyOf(syncToGCS(file, bucket, net), net), FALSE, OpNames[1])
            IN /\ AnalysisRequests(requests') # <<>>
                    => /\ file.filename \in DOMAIN bucket'
                       /\ bucket'[file.filename] = file.drive_id
               /\ failed => /\ AnalysisRequests(requests') = <<>>
                            /\ ~res.threw
                            /\ res.data.operation_id = "error"]_vars

C20_OffsetWithinStride ==
  bestOffset # <<>>
    => LET D == Len(masterBuffer.data) - Len(slaveBuffer.data)
           scanWindow == Min(Min(Len(masterBuffer.data), Len(slaveBuffer.data)),
                             masterBuffer.sampleRate * ScanSeconds)
       IN (slaveBuffer.data = Delayed(masterBuffer.data, D) /\ D < scanWindow)
            => /\ bestOffset[1] >= 0
               /\ bestOffset[2] = masterBuffer.sampleRate
               /\ bestOffset[1] - D <= Stride
               /\ D - bestOffset[1] <= Stride


\* The interview master audio and interview video angles whose native rate
\* is known.
RatedInterviewFiles(files) ==
  LET shoot == generateXML_masterAudio(files) \o generateXML_videoAngles(files)
  IN SelectSeq(shoot, LAMBDA f : f.tech_metadata # NoTech)

\* Two of them carry different native frame rates (compared as rationals).
RateMismatch(files) ==
  LET rated == RatedInterviewFiles(files)
  IN \E i, j \in 1..Len(rated) :
       LET p == parseFps(rated[i].tech_metadata.frame_rate_fraction)
           q == parseFps(rated[j].tech_metadata.frame_rate_fraction)
       IN /\ generateXML_masterAudio(<<rated[i]>>) # <<>>
          /\ generateXML_videoAngles(<<rated[j]>>) # <<>>
          /\ p[1] * q[2] # q[1] * p[2]

\* C21: when the interview master audio and an interview video angle carry
\* different native frame rates, an export does not hand back a timeline
\* document: the mismatch is reported instead.
C21_MismatchSurfaced ==
  [][(handleExportXML /\ RateMismatch(registryFiles)) => "timebase" \notin DOMAIN xml']_vars


C23_ClearEmpties ==
  [][handleReset => /\ getAllMedia(db') = <<>>
                    /\ getAllMedia(clearRegistry(db')) = <<>>
                    /\ DOMAIN clearRegistry(db') = {}]_vars

\* The registry is empty after records were indexed, analysed and submitted.
C23_Witness ==
  /\ DOMAIN db = {}
  /\ registryFiles = <<>>
  /\ nextOp > 0


\* Every stored record outside `called` is the same before and after the step.
OthersKept(called) ==
  \A a \in DOMAIN db \ called : a \in DOMAIN db' /\ db'[a] = db[a]

\* C25: a registry write made for one asset by a batch phase, the poller or
\* the alignment leaves every other asset's stored record as it was; only
\* handleReset (clearRegistry) touches records it was not called for.
C25_WriteFrame ==
  [][/\ \A reply \in Replies, isInterview \in BOOLEAN :
          PhaseStep(reply, isInterview) => OthersKept({job.targets[job.i].drive_id})
     /\ \A file \in polls, remote \in PollReplies :
          handleCheckStatus(file, remote) => OthersKept({file.drive_id})
     /\ \A masterOk \in BOOLEAN, decodable \in SUBSET Assets, offset \in [Assets -> OffsetSeconds] :
          AlignmentRun(masterOk, decodable, offset) => OthersKept(decodable)
     /\ handleFolderSelected => OthersKept({Folder[k] : k \in 1..Len(Folder)})
     /\ handleReset \/ OthersKept({a \in DOMAIN db : a \in DOMAIN db' /\ db'[a] # db[a]})]_vars

\* The poller has completed one asset while another asset's record, written
\* by an earlier phase, is still stored.
C25_Witness ==
  \E a, b \in DOMAIN db :
    /\ a # b
    /\ db[a].operation_id = "completed" /\ db[a].last_forensic_stage = "heavy"
    /\ db[b].last_forensic_stage # NoStage
    /\ db[b].operation_id # "completed"


\* C26: when a poll reports the remote job done, the asset (still in the
\* registry) leaves the in-flight condition: 'completed' with the content
\* when there is a response, 'error' when the job is done with an error and
\* no response.
C26_DoneLeavesInFlight ==
  [][\A file \in polls, remote \in {"speech", "labels", "done_error"} :
       (handleCheckStatus(file, remote) /\ file.drive_id \in DOMAIN db)
         => /\ file.drive_id \in DOMAIN db'
            /\ ~isPending(db'[file.drive_id])
            /\ db'[file.drive_id].operation_id =
                 IF remote = "done_error" THEN "error" ELSE "completed"]_vars


\* C27: a record cleared by a reset does not come back through a write that
\* was in flight at the reset: only indexing a folder adds assets to the
\* registry, so any other step leaves no asset stored that was not stored
\* before it.
C27_NoResurrection ==
  [][handleFolderSelected \/ DOMAIN db' \subseteq DOMAIN db]_vars


\* C30: within one document every clip item id is unique, whatever the
\* assets are called.
C30_ClipIdsUnique ==
  xml # <<>> =>
    \A i, j \in 1..Len(ClipsOf(xml)) :
      ClipsOf(xml)[i].id = ClipsOf(xml)[j].id => i = j


\* The handlers started from the phase buttons.
ButtonPhases == (BatchPhases \ {"Analyze"}) \cup {"Relational Sync"}

\* The phase buttons are enabled: disabled={!user || !!activePhase}.
ButtonsEnabled == accessToken /\ activePhase = "null"

C28_PollCompletes ==
  \A a \in FolderAssets :
    (a \in DOMAIN db /\ isPending(db[a]))
      ~> \/ a \notin DOMAIN db
         \/ db[a] = NewMediaFile(a)
         \/ db[a].operation_id = "completed"

\* C29: the handlers of the Tech Specs, Categorization and Relational Sync
\* buttons terminate with the busy flags released, whichever way their
\* remote calls and registry writes go: a running handler is eventually over,
\* with activePhase and analyzingId null.
C29_HandlersRelease ==
  (job.phase \in {"Tech Specs", "Categorization", "Relational Sync"})
    ~> (job = Idle /\ activePhase = "null" /\ analyzingId = "null")

\* Tech Specs is over with the flags released after an iteration whose probe
\* failed and an iteration whose registry write was rejected, which left the
\* record of the B-roll file as it was.
C29_Witness ==
  /\ job = Idle /\ activePhase = "null" /\ analyzingId = "null"
  /\ clicks = MaxClicks
  /\ \E a, b \in DOMAIN db :
       /\ db[a].tech_metadata = TechDefaults
       /\ db[b].clip_type = "b-roll"
       /\ db[b].tech_metadata = NoTech
       /\ db[b].operation_id = OpNames[2]

====
